---- MODULE Spec2Model ----
(***************************************************************************)
(* Model of src/music_player.py, a Streamlit script.  The script runs top  *)
(* to bottom once per user interaction ("render cycle"); st.session_state  *)
(* survives between runs.  One run is modelled as the sequence of its code *)
(* sections, pc naming the section about to execute:                       *)
(*   "source"  lines 153-211  music-source sidebar (uploader / URL)        *)
(*   "options" lines 213-239  playback options and sleep-timer buttons     *)
(*   "main"    lines 245-352  playlist, now-playing, previous / next       *)
(*   "poll"    lines 355-362  sleep-timer expiry check                     *)
(*   "idle"    the run has ended; the browser waits for the next intent    *)
(* A file or URL name is a sequence of symbols ("/", "?", "." and name     *)
(* parts), so that the split() calls of the script are computed.           *)
(* The clock is read once per run (a run is short against a minute).       *)
(* The autoplay and loop checkboxes only parameterise st.audio and are     *)
(* left out; a run they trigger is the Rerun action.                       *)
(***************************************************************************)
EXTENDS Integers, Sequences, FiniteSets, TLC

\* ---- bounds -------------------------------------------------------------
MaxTracks == 3
MaxUploads == 2
MaxTime == 2
MaxMinutes == 2

\* ---- values --------------------------------------------------------------
NoTime == -1
NoTrack == -1
UploadMode == "Upload Audio Files"
UrlMode == "Enter Audio URL"

\* A byte buffer is named by what the tag library does with it: "tagged" parses
\* with tags, "unparsed" yields a falsy audio object, "id3noheader" raises
\* ID3NoHeaderError, "error" raises any other exception.

fileA == [name |-> <<"a", ".", "mp3">>, data |-> "tagged"]
fileB == [name |-> <<"b", ".", "MP3">>, data |-> "error"]
Files == {fileA, fileB}

url1 == <<"h", "/", "a", ".", "mp3">>
url2 == <<"h", "/", "a", ".", "mp3", "?", "q">>
url3 == <<"h", "/">>
Urls == {url1, url2, url3}

\* Body the server returns for a URL when the request succeeds.
url_content(url) ==
    IF url = url1 THEN "tagged" ELSE IF url = url2 THEN "id3noheader" ELSE "unparsed"

\* Outcomes of requests.get + raise_for_status (line 95-96): a
\* RequestException, the audio body, or a body the tag library chokes on.
FetchResults == {"RequestException", "ok", "garbage"}

\* ---- string helpers ------------------------------------------------------
\* s.split(sep)[-1]
RECURSIVE split_last(_, _)
split_last(s, sep) ==
    IF s = <<>> THEN <<>>
    ELSE IF s[Len(s)] = sep THEN <<>>
    ELSE Append(split_last(SubSeq(s, 1, Len(s) - 1), sep), s[Len(s)])

\* s.split(sep)[0]
RECURSIVE split_first(_, _)
split_first(s, sep) ==
    IF s = <<>> THEN <<>>
    ELSE IF Head(s) = sep THEN <<>>
    ELSE <<Head(s)>> \o split_first(Tail(s), sep)

lower_sym(c) ==
    IF c = "MP3" THEN "mp3" ELSE c

lower(s) ==
    [i \in 1..Len(s) |-> lower_sym(s[i])]

\* os.path.splitext(filename)[0]: cut at the last dot unless only dots
\* precede it.
splitext_root(s) ==
    LET dots == {i \in 1..Len(s) : s[i] = "."}
    IN IF dots = {} THEN s
       ELSE LET d == CHOOSE i \in dots : \A j \in dots : j <= i
            IN IF \E k \in 1..(d - 1) : s[k] # "." THEN SubSeq(s, 1, d - 1) ELSE s

\* ---- helper functions of the script ---------------------------------------
get_metadata(data, filename) ==
    LET default == [title |-> IF filename # <<>> THEN splitext_root(filename)
                                              ELSE <<"Unknown Title">>,
                    artist |-> "Unknown Artist",
                    album |-> "Unknown Album",
                    duration |-> 0,
                    art |-> "None"]
        hint == IF filename # <<>> THEN split_last(lower(filename), ".") ELSE <<>>
    IN CASE data = "error" ->
              [raised |-> TRUE, warned |-> FALSE, value |-> default]
         [] data = "id3noheader" ->
              [raised |-> FALSE, warned |-> TRUE, value |-> default]
         [] data = "unparsed" ->
              [raised |-> FALSE, warned |-> FALSE, value |-> default]
         [] OTHER ->
              [raised |-> FALSE, warned |-> FALSE,
               value |-> IF hint = <<"wav">>
                         THEN [default EXCEPT !.duration = 1]
                         ELSE [title |-> <<"tag_title">>,
                               artist |-> "tag_artist",
                               album |-> "tag_album",
                               duration |-> 1,
                               art |-> IF hint \in {<<"mp3">>, <<"flac">>}
                                       THEN "picture" ELSE "None"]]

\* Mutant: raise_for_status (line 96) left out, the body of a failed request is
\* returned as content.
fetch_url_content_unchecked(url, result) ==
    LET filename == split_first(split_last(url, "/"), "?")
    IN [ok |-> TRUE,
        content |-> IF result = "ok" THEN url_content(url)
                    ELSE IF result = "garbage" THEN "error" ELSE "unparsed",
        filename |-> IF filename = <<>> THEN <<"audio_from_url">> ELSE filename]

fetch_url_content(url, result) ==
    IF result = "RequestException"
    THEN [ok |-> FALSE, content |-> "None", filename |-> <<>>]
    ELSE LET filename == split_first(split_last(url, "/"), "?")
         IN [ok |-> TRUE,
             content |-> IF result = "ok" THEN url_content(url) ELSE "error",
             filename |-> IF filename = <<>> THEN <<"audio_from_url">> ELSE filename]

\* ---- state ----------------------------------------------------------------
VARIABLES
    playlist,              \* st.session_state.playlist
    current_track_index,   \* st.session_state.current_track_index
    sleep_timer_active,    \* st.session_state.sleep_timer_active
    sleep_timer_end_time,  \* st.session_state.sleep_timer_end_time (NoTime = None)
    shuffle_mode,          \* st.session_state.shuffle_mode
    upload_method,         \* st.session_state.upload_method
    uploaded_files,        \* files held by the st.file_uploader widget
    now,                   \* datetime.now(), in minutes
    pc,                    \* section of the script about to run
    trigger,               \* the intent (or st.experimental_rerun) that started this run
    messages,              \* st.success / info / warning / error calls of this run
    fetched,               \* this run called requests.get
    fetch_result,          \* how that request ended ("none": no request)
    audio,                 \* index of the track handed to st.audio in this run
    ui,                    \* widgets the run has rendered so far
    nav_hist               \* history: the serial previous / next steps just taken

vars == <<playlist, current_track_index, sleep_timer_active, sleep_timer_end_time,
          shuffle_mode, upload_method, uploaded_files, now, pc, trigger, messages,
          fetched, fetch_result, audio, ui, nav_hist>>

session == <<playlist, current_track_index, sleep_timer_active, sleep_timer_end_time,
             shuffle_mode, upload_method>>

NoTrigger == [kind |-> "none", arg |-> 0]
NoUi == [controls |-> FALSE, cancel |-> FALSE, tracks |-> 0, nav |-> FALSE]

\* nav_hist records the serial (shuffle off) previous / next handlers that ran
\* in consecutive runs with nothing else in between: op and from are the last
\* handler and the index before it, op2 and from2 the one before that, start and
\* count the index before and the length of the current streak of next().
NoHist == [op |-> "none", from |-> -1, op2 |-> "none", from2 |-> -1,
           start |-> -1, count |-> 0]

\* The script starts from its first line: nothing rendered yet.
start_run(trig) ==
    /\ trigger' = trig
    /\ nav_hist' = IF trig.kind \in {"next", "previous"} THEN nav_hist ELSE NoHist
    /\ messages' = {}
    /\ fetched' = FALSE
    /\ fetch_result' = "none"
    /\ audio' = NoTrack
    /\ ui' = NoUi
    /\ pc' = "source"

default_states ==
    /\ playlist = <<>>
    /\ current_track_index = -1
    /\ sleep_timer_active = FALSE
    /\ sleep_timer_end_time = NoTime
    /\ shuffle_mode = FALSE
    /\ upload_method = UploadMode

Init ==
    /\ default_states
    /\ uploaded_files = <<>>
    /\ now = 0
    /\ pc = "source"
    /\ trigger = NoTrigger
    /\ messages = {}
    /\ fetched = FALSE
    /\ fetch_result = "none"
    /\ audio = NoTrack
    /\ ui = NoUi
    /\ nav_hist = NoHist

\* ---- intents: what the user can do with the rendered page -------------------
\* Mutant: the duplicate check of line 173 left out.
name_in_playlist_never(pl, name) ==
    FALSE

name_in_playlist(pl, name) ==
    \E i \in 1..Len(pl) : pl[i]["name"] = name

\* Mutant: the duplicate check of line 194 left out.
url_in_playlist_never(pl, url) ==
    FALSE

url_in_playlist(pl, url) ==
    \E i \in 1..Len(pl) : pl[i]["type"] = "url" /\ pl[i]["source"] = url

SetRadio(m) ==
    /\ pc = "idle"
    /\ m # upload_method
    /\ start_run([kind |-> "radio", arg |-> m])
    /\ UNCHANGED <<session, uploaded_files, now>>

\* The files picked in one file dialog (accept_multiple_files=True, line 167).
Batches ==
    UNION {[1..k -> Files] : k \in 1..MaxUploads}

UploadFiles(batch) ==
    /\ pc = "idle"
    /\ upload_method = UploadMode
    /\ Len(uploaded_files) + Len(batch) <= MaxUploads
    /\ \/ Len(playlist) + Len(batch) <= MaxTracks
       \/ \A i \in 1..Len(batch) : name_in_playlist(playlist, batch[i].name)
    /\ uploaded_files' = uploaded_files \o batch
    /\ start_run([kind |-> "upload", arg |-> 0])
    /\ UNCHANGED <<session, now>>

RemoveFile(i) ==
    /\ pc = "idle"
    /\ upload_method = UploadMode
    /\ i \in 1..Len(uploaded_files)
    /\ uploaded_files' = SubSeq(uploaded_files, 1, i - 1)
                           \o SubSeq(uploaded_files, i + 1, Len(uploaded_files))
    /\ start_run([kind |-> "upload", arg |-> 0])
    /\ UNCHANGED <<session, now>>

\* url = <<>> is a click with the text input left empty.
ClickAddUrl(url) ==
    /\ pc = "idle"
    /\ upload_method = UrlMode
    /\ Len(playlist) < MaxTracks \/ url_in_playlist(playlist, url)
    /\ start_run([kind |-> "addurl", arg |-> url])
    /\ UNCHANGED <<session, uploaded_files, now>>

ToggleShuffle ==
    /\ pc = "idle"
    /\ ui.controls
    /\ start_run([kind |-> "shuffle", arg |-> 0])
    /\ UNCHANGED <<session, uploaded_files, now>>

\* Mutant: the Start button never disabled.
ClickStart_enabled_at_zero(minutes) ==
    /\ pc = "idle"
    /\ ui.controls
    /\ start_run([kind |-> "start", arg |-> minutes])
    /\ UNCHANGED <<session, uploaded_files, now>>

\* disabled=(sleep_minutes == 0), line 223
ClickStart(minutes) ==
    /\ pc = "idle"
    /\ ui.controls
    /\ minutes # 0
    /\ start_run([kind |-> "start", arg |-> minutes])
    /\ UNCHANGED <<session, uploaded_files, now>>

\* disabled=not sleep_timer_active, line 228
ClickCancel ==
    /\ pc = "idle"
    /\ ui.controls
    /\ ui.cancel
    /\ start_run([kind |-> "cancel", arg |-> 0])
    /\ UNCHANGED <<session, uploaded_files, now>>

ClickTrack(i) ==
    /\ pc = "idle"
    /\ i < ui.tracks
    /\ start_run([kind |-> "track", arg |-> i])
    /\ UNCHANGED <<session, uploaded_files, now>>

ClickPrevious ==
    /\ pc = "idle"
    /\ ui.nav
    /\ start_run([kind |-> "previous", arg |-> 0])
    /\ UNCHANGED <<session, uploaded_files, now>>

ClickNext ==
    /\ pc = "idle"
    /\ ui.nav
    /\ start_run([kind |-> "next", arg |-> 0])
    /\ UNCHANGED <<session, uploaded_files, now>>

\* A run with no button pressed: browser refresh of the script, or a widget
\* this model does not track (autoplay, loop, typing in an input).
Rerun ==
    /\ pc = "idle"
    /\ start_run(NoTrigger)
    /\ UNCHANGED <<session, uploaded_files, now>>

Tick ==
    /\ pc = "idle"
    /\ now < MaxTime
    /\ now' = now + 1
    /\ UNCHANGED <<session, uploaded_files, pc, trigger, messages, fetched,
                   fetch_result, audio, ui, nav_hist>>

\* ---- the script, section by section -----------------------------------------
\* The run ends: at the last line, or where an exception escapes the script.
end_run ==
    /\ pc' = "idle"
    /\ trigger' = NoTrigger

\* Mutant: insert(0, entry) instead of append(entry).
append_entry_in_front(pl, entry) ==
    <<entry>> \o pl

\* Lines 177 and 200: st.session_state.playlist.append(entry).
append_entry(pl, entry) ==
    Append(pl, entry)

\* Lines 171-183: the loop over uploaded_files.  raised: get_metadata raised
\* and the exception left the loop (and the script) at that file.
RECURSIVE process_uploads(_, _, _, _)
process_uploads(pl, files, count, warned) ==
    IF files = <<>>
    THEN [playlist |-> pl, count |-> count, warned |-> warned, raised |-> FALSE]
    ELSE LET uploaded_file == Head(files)
         IN IF ~name_in_playlist(pl, uploaded_file.name)
            THEN LET metadata == get_metadata(uploaded_file.data, uploaded_file.name)
                 IN IF metadata.raised
                    THEN [playlist |-> pl, count |-> count, warned |-> warned,
                          raised |-> TRUE]
                    ELSE process_uploads(
                             append_entry(pl, [source |-> uploaded_file.data,
                                               metadata |-> metadata.value,
                                               type |-> "file",
                                               name |-> uploaded_file.name]),
                             Tail(files), count + 1, warned \/ metadata.warned)
            ELSE process_uploads(pl, Tail(files), count, warned)

\* Line 156: the radio's value becomes upload_method.
radio_value ==
    IF trigger.kind = "radio" THEN trigger.arg ELSE upload_method

\* Lines 163-188.
UploadSection ==
    /\ pc = "source"
    /\ radio_value = UploadMode
    /\ upload_method' = radio_value
    /\ LET r == process_uploads(playlist, uploaded_files, 0, FALSE)
           warnings == IF r.warned THEN {"warning: no ID3 tags"} ELSE {}
       IN /\ playlist' = r.playlist
          /\ IF r.raised
             THEN /\ messages' = messages \cup warnings \cup {"exception"}
                  /\ end_run
                  /\ UNCHANGED current_track_index
             ELSE /\ messages' = messages \cup warnings \cup
                                   (IF r.count > 0 THEN {"success: files added"} ELSE {})
                  /\ current_track_index' =
                         IF r.count > 0 /\ current_track_index = -1 /\ r.playlist # <<>>
                         THEN 0 ELSE current_track_index
                  /\ pc' = "options"
                  /\ UNCHANGED trigger
    /\ nav_hist' = IF playlist' # playlist THEN NoHist ELSE nav_hist
    /\ UNCHANGED <<sleep_timer_active, sleep_timer_end_time, shuffle_mode,
                   uploaded_files, now, fetched, fetch_result, audio, ui>>

\* Lines 191-211.  The uploader is not rendered in this mode, and a widget
\* that is not rendered loses its files.
UrlSection ==
    /\ pc = "source"
    /\ radio_value = UrlMode
    /\ upload_method' = radio_value
    /\ uploaded_files' = <<>>
    /\ IF trigger.kind = "addurl" /\ trigger.arg # <<>>
       THEN LET url_input == trigger.arg
            IN IF ~url_in_playlist(playlist, url_input)
               THEN \E result \in FetchResults :
                      LET f == fetch_url_content(url_input, result)
                          metadata == get_metadata(f.content, f.filename)
                          warnings == IF metadata.warned
                                      THEN {"warning: no ID3 tags"} ELSE {}
                      IN /\ fetched' = TRUE
                         /\ fetch_result' = result
                         /\ IF ~f.ok
                            THEN /\ messages' = messages \cup {"error: fetching URL"}
                                 /\ pc' = "options"
                                 /\ UNCHANGED <<playlist, current_track_index, trigger>>
                            ELSE IF metadata.raised
                            THEN /\ messages' = messages \cup {"exception"}
                                 /\ end_run
                                 /\ UNCHANGED <<playlist, current_track_index>>
                            ELSE /\ playlist' = append_entry(playlist,
                                        [source |-> url_input,
                                         metadata |-> metadata.value,
                                         type |-> "url",
                                         name |-> IF f.filename # <<>> THEN f.filename
                                                  ELSE url_input])
                                 /\ messages' = messages \cup warnings
                                                  \cup {"success: URL added"}
                                 /\ current_track_index' =
                                        IF current_track_index = -1 THEN 0
                                        ELSE current_track_index
                                 /\ pc' = "options"
                                 /\ UNCHANGED trigger
               ELSE /\ messages' = messages \cup {"warning: URL already in playlist"}
                    /\ pc' = "options"
                    /\ UNCHANGED <<playlist, current_track_index, trigger, fetched,
                                   fetch_result>>
       ELSE /\ pc' = "options"
            /\ UNCHANGED <<playlist, current_track_index, trigger, fetched,
                           fetch_result, messages>>
    /\ nav_hist' = IF playlist' # playlist THEN NoHist ELSE nav_hist
    /\ UNCHANGED <<sleep_timer_active, sleep_timer_end_time, shuffle_mode, now, audio, ui>>

\* Lines 213-239.
OptionsSection ==
    /\ pc = "options"
    /\ shuffle_mode' = IF trigger.kind = "shuffle" THEN ~shuffle_mode ELSE shuffle_mode
    /\ LET active == IF trigger.kind = "start" THEN TRUE
                     ELSE IF trigger.kind = "cancel" THEN FALSE
                     ELSE sleep_timer_active
           end_time == IF trigger.kind = "start" THEN now + trigger.arg
                       ELSE IF trigger.kind = "cancel" THEN NoTime
                       ELSE sleep_timer_end_time
       IN /\ sleep_timer_active' = active
          /\ sleep_timer_end_time' = end_time
          /\ messages' = messages
                \cup (IF trigger.kind = "start" THEN {"success: sleep timer set"} ELSE {})
                \cup (IF trigger.kind = "cancel" THEN {"info: sleep timer cancelled"} ELSE {})
                \cup (IF active /\ end_time # NoTime
                      THEN IF end_time - now > 0 THEN {"info: stopping in"}
                           ELSE {"info: end time reached"}
                      ELSE {})
          /\ ui' = [ui EXCEPT !.controls = TRUE, !.cancel = active]
    /\ pc' = "main"
    /\ UNCHANGED <<playlist, current_track_index, upload_method, uploaded_files, now,
                   trigger, fetched, fetch_result, audio, nav_hist>>

\* Mutant: no wrap at the first track, the index runs below 0.
previous_track_underflow(index, n) ==
    IF n = 0 THEN index ELSE index - 1

\* Mutant: Previous honours the shuffle checkbox as Next does (lines 335-339).
previous_track_shuffles(index, n) ==
    IF n = 0 THEN index
    ELSE IF shuffle_mode /\ n > 1 THEN CHOOSE j \in 0..(n - 1) : j # index
    ELSE IF index > 0 THEN index - 1 ELSE n - 1

\* Mutant: wraps to len(playlist) instead of len(playlist) - 1.
previous_track_wraps_past_end(index, n) ==
    IF n = 0 THEN index
    ELSE IF index > 0 THEN index - 1 ELSE n

\* Mutant: stops at the first track instead of wrapping.
previous_track_no_wrap(index, n) ==
    IF n = 0 THEN index
    ELSE IF index > 0 THEN index - 1 ELSE index

\* Lines 325-330.
previous_track(index, n) ==
    IF n = 0 THEN index
    ELSE IF index > 0 THEN index - 1 ELSE n - 1

\* Mutant: stops at the last track instead of wrapping.
next_serial_no_wrap(index, n) ==
    IF index < n - 1 THEN index + 1 ELSE index

\* Lines 341-345.
next_serial(index, n) ==
    IF index < n - 1 THEN index + 1 ELSE 0

\* Mutant: the while loop of line 337 left out, one draw only.
next_shuffle_single_draw(index, n) ==
    IF n > 1 THEN 0..(n - 1) ELSE {index}

\* Lines 335-339: the values new_idx can hold when the while loop exits.
next_shuffle(index, n) ==
    IF n > 1 THEN {j \in 0..(n - 1) : j # index} ELSE {index}

\* Lines 332-345.
next_track(index, n, shuffle) ==
    IF n = 0 THEN {index}
    ELSE IF shuffle THEN next_shuffle(index, n)
    ELSE {next_serial(index, n)}

\* The history after the previous / next handlers of this run (lines 325-345).
record_nav(selected, n) ==
    IF trigger.kind = "next" /\ ~shuffle_mode
    THEN LET streak == nav_hist.op = "next" /\ nav_hist.count < n
         IN [op |-> "next", from |-> selected,
             op2 |-> nav_hist.op, from2 |-> nav_hist.from,
             start |-> IF streak THEN nav_hist.start ELSE selected,
             count |-> IF streak THEN nav_hist.count + 1 ELSE 1]
    ELSE IF trigger.kind = "previous" /\ ~shuffle_mode
    THEN [op |-> "previous", from |-> selected,
          op2 |-> nav_hist.op, from2 |-> nav_hist.from,
          start |-> -1, count |-> 0]
    ELSE NoHist

\* Lines 245-352.  The st.info of line 348 is lost with the run that line 352
\* abandons; an index that is neither -1 nor in range never gets here.
MainSection ==
    /\ pc = "main"
    /\ IF playlist = <<>>
       THEN /\ messages' = messages \cup {"info: upload to get started"}
            /\ pc' = "poll"
            /\ UNCHANGED <<current_track_index, trigger, fetched, fetch_result, audio,
                           ui, nav_hist>>
       ELSE LET n == Len(playlist)
                selected == IF trigger.kind = "track" THEN trigger.arg
                            ELSE current_track_index
            IN IF 0 <= selected /\ selected < n
               THEN /\ audio' = selected
                    /\ ui' = [ui EXCEPT !.tracks = n, !.nav = TRUE]
                    /\ \E new_idx \in next_track(selected, n, shuffle_mode) :
                         current_track_index' =
                            IF trigger.kind = "previous" THEN previous_track(selected, n)
                            ELSE IF trigger.kind = "next" THEN new_idx
                            ELSE selected
                    /\ nav_hist' = record_nav(selected, n)
                    /\ pc' = "poll"
                    /\ UNCHANGED <<trigger, fetched, fetch_result, messages>>
               ELSE IF selected = -1
                    THEN /\ current_track_index' = 0
                         /\ start_run([kind |-> "rerun", arg |-> 352])
                    ELSE /\ messages' = messages \cup {"info: select a track"}
                         /\ ui' = [ui EXCEPT !.tracks = n]
                         /\ pc' = "poll"
                         /\ UNCHANGED <<current_track_index, trigger, fetched,
                                        fetch_result, audio, nav_hist>>
    /\ UNCHANGED <<playlist, sleep_timer_active, sleep_timer_end_time, shuffle_mode,
                   upload_method, uploaded_files, now>>

\* Mutant: > instead of >= at line 356.
sleep_timer_due_strict ==
    /\ sleep_timer_active
    /\ sleep_timer_end_time # NoTime
    /\ now > sleep_timer_end_time

\* Line 355-356.
sleep_timer_due ==
    /\ sleep_timer_active
    /\ sleep_timer_end_time # NoTime
    /\ now >= sleep_timer_end_time

\* Mutant: line 358 left out, the expiry clears the flag but keeps the deadline.
PollSection_keeps_end_time ==
    /\ pc = "poll"
    /\ IF sleep_timer_due
       THEN /\ sleep_timer_active' = FALSE
            /\ sleep_timer_end_time' = sleep_timer_end_time
            /\ current_track_index' = -1
            /\ start_run([kind |-> "rerun", arg |-> 362])
       ELSE /\ end_run
            /\ UNCHANGED <<sleep_timer_active, sleep_timer_end_time, current_track_index,
                           messages, fetched, fetch_result, audio, ui, nav_hist>>
    /\ UNCHANGED <<playlist, shuffle_mode, upload_method, uploaded_files, now>>

\* Lines 355-365.
PollSection ==
    /\ pc = "poll"
    /\ IF sleep_timer_due
       THEN /\ sleep_timer_active' = FALSE
            /\ sleep_timer_end_time' = NoTime
            /\ current_track_index' = -1
            /\ start_run([kind |-> "rerun", arg |-> 362])
       ELSE /\ end_run
            /\ UNCHANGED <<sleep_timer_active, sleep_timer_end_time, current_track_index,
                           messages, fetched, fetch_result, audio, ui, nav_hist>>
    /\ UNCHANGED <<playlist, shuffle_mode, upload_method, uploaded_files, now>>

Next ==
    \/ \E m \in {UploadMode, UrlMode} : SetRadio(m)
    \/ \E batch \in Batches : UploadFiles(batch)
    \/ \E i \in 1..MaxUploads : RemoveFile(i)
    \/ \E url \in Urls \cup {<<>>} : ClickAddUrl(url)
    \/ ToggleShuffle
    \/ \E minutes \in 0..MaxMinutes : ClickStart(minutes)
    \/ ClickCancel
    \/ \E i \in 0..(MaxTracks - 1) : ClickTrack(i)
    \/ ClickPrevious
    \/ ClickNext
    \/ Rerun
    \/ Tick
    \/ UploadSection
    \/ UrlSection
    \/ OptionsSection
    \/ MainSection
    \/ PollSection

Spec == Init /\ [][Next]_vars

\* ---- claims -------------------------------------------------------------------
local_names(pl) ==
    {pl[i]["name"] : i \in {j \in 1..Len(pl) : pl[j]["type"] = "file"}}

url_names(pl) ==
    {pl[i]["name"] : i \in {j \in 1..Len(pl) : pl[j]["type"] = "url"}}

url_sources(pl) ==
    {pl[i]["source"] : i \in {j \in 1..Len(pl) : pl[j]["type"] = "url"}}

valid_index ==
    0 <= current_track_index /\ current_track_index < Len(playlist)

\* C1: in every reachable state, between and inside render cycles,
\* current_track_index is -1 or a valid index into playlist.
C1_IndexInRange ==
    current_track_index = -1 \/ valid_index

\* C1 witness: previous() has wrapped from the first to the last of several tracks.
C1_Witness ==
    /\ pc = "poll"
    /\ trigger.kind = "previous"
    /\ Len(playlist) >= 2
    /\ nav_hist.op = "previous"
    /\ nav_hist.from = 0
    /\ current_track_index = Len(playlist) - 1

\* C2: once the sleep timer has expired on a non-empty playlist, the rerun that
\* the expiry requested (no user intent) leaves current_track_index at -1 and
\* hands no track to the audio element.
C2_StaysStopped ==
    [][(trigger.kind = "rerun" /\ trigger.arg = 362 /\ playlist # <<>>)
         => (current_track_index' = -1 /\ audio' = NoTrack)]_vars

\* C3: when the sleep-timer poll runs with a deadline set and now >= deadline it
\* clears the deadline and sets current_track_index to -1; when it runs with no
\* deadline set or now < deadline it changes nothing of the session state.
C3_Poll ==
    [][pc = "poll"
         => IF sleep_timer_end_time # NoTime /\ now >= sleep_timer_end_time
            THEN /\ sleep_timer_active' = FALSE
                 /\ sleep_timer_end_time' = NoTime
                 /\ current_track_index' = -1
            ELSE UNCHANGED session]_vars

\* C3 witness: the poll has just fired on a selected track of a non-empty playlist.
C3_Witness ==
    /\ trigger.kind = "rerun"
    /\ trigger.arg = 362
    /\ pc = "source"
    /\ playlist # <<>>
    /\ current_track_index = -1
    /\ ~sleep_timer_active
    /\ sleep_timer_end_time = NoTime

\* C4 as stated: start needs minutes > 0 and, with a timer already active,
\* leaves the existing deadline unchanged.
C4_StartNoOpWhenActive ==
    [][(pc = "options" /\ trigger.kind = "start")
         => /\ trigger.arg > 0
            /\ sleep_timer_active => sleep_timer_end_time' = sleep_timer_end_time]_vars

\* C4 amended: start needs minutes > 0 and sets the deadline to now + minutes,
\* also when a timer is already active (the earlier deadline is replaced).
C4_StartSetsDeadline ==
    [][(pc = "options" /\ trigger.kind = "start")
         => /\ trigger.arg > 0
            /\ sleep_timer_active'
            /\ sleep_timer_end_time' = now + trigger.arg]_vars

\* C4 witness: Start pressed while a timer with another deadline is active.
C4_Witness ==
    /\ pc = "options"
    /\ trigger.kind = "start"
    /\ sleep_timer_active
    /\ sleep_timer_end_time # now + trigger.arg

\* C5: with shuffle off, one next() moves to index + 1, or to 0 from the last
\* index, and len(playlist) consecutive next() return to the starting index.
C5_NextWraps ==
    [][(pc = "main" /\ trigger.kind = "next" /\ ~shuffle_mode /\ valid_index)
         => /\ current_track_index' =
                  IF current_track_index = Len(playlist) - 1 THEN 0
                  ELSE current_track_index + 1
            /\ nav_hist'.count = Len(playlist) => current_track_index' = nav_hist'.start]_vars

\* C5 witness: next() has run len(playlist) times in a row on three or more tracks.
C5_Witness ==
    /\ pc = "poll"
    /\ Len(playlist) >= 3
    /\ nav_hist.count = Len(playlist)
    /\ current_track_index = nav_hist.start

\* C6: with shuffle off, previous() then next(), and next() then previous(),
\* end at the index they started from.
C6_PrevNextRestores ==
    (\/ nav_hist.op = "next" /\ nav_hist.op2 = "previous"
     \/ nav_hist.op = "previous" /\ nav_hist.op2 = "next")
        => current_track_index = nav_hist.from2

\* C6 witness: previous() from the first track, then next(), on several tracks.
C6_Witness ==
    /\ pc = "poll"
    /\ Len(playlist) >= 2
    /\ nav_hist.op = "next"
    /\ nav_hist.op2 = "previous"
    /\ nav_hist.from2 = 0
    /\ current_track_index = 0

\* C7: with shuffle on, next() on more than one track ends at a valid index other
\* than the one before; on a single track it leaves the index unchanged.
C7_ShuffleMoves ==
    [][(pc = "main" /\ trigger.kind = "next" /\ shuffle_mode /\ valid_index)
         => IF Len(playlist) > 1
            THEN /\ current_track_index' # current_track_index
                 /\ 0 <= current_track_index'
                 /\ current_track_index' < Len(playlist)
            ELSE current_track_index' = current_track_index]_vars

\* C7 witness: a shuffled next() has run on several tracks.
C7_Witness ==
    /\ pc = "poll"
    /\ trigger.kind = "next"
    /\ shuffle_mode
    /\ Len(playlist) > 1
    /\ valid_index

\* C8: whenever the uploader section runs and every uploaded file carries the name
\* of a local-file entry (a file uploaded again, or the same files processed
\* again in a later cycle), the playlist and current_track_index stay as they are.
C8_DuplicateFileIgnored ==
    [][(/\ pc = "source"
        /\ radio_value = UploadMode
        /\ uploaded_files # <<>>
        /\ \A i \in 1..Len(uploaded_files) :
              uploaded_files[i].name \in local_names(playlist))
         => /\ playlist' = playlist
            /\ current_track_index' = current_track_index]_vars

\* C8 witness: the same file name sits twice in the uploader and once in the
\* playlist after the uploader section has run in a cycle started by Next.
C8_Witness ==
    /\ pc = "options"
    /\ trigger.kind = "next"
    /\ Len(uploaded_files) = 2
    /\ uploaded_files[1].name = uploaded_files[2].name
    /\ Cardinality({i \in 1..Len(playlist) :
                       playlist[i]["name"] = uploaded_files[1].name}) = 1

\* C9: a parseable local file whose name is carried only by a URL entry is
\* appended to the playlist as one new local-file entry.
C9_LocalAddIgnoresUrlNames ==
    [][(/\ pc = "source"
        /\ radio_value = UploadMode
        /\ Len(uploaded_files) = 1
        /\ uploaded_files[1].data # "error"
        /\ uploaded_files[1].name \in url_names(playlist)
        /\ uploaded_files[1].name \notin local_names(playlist))
         => /\ Len(playlist') = Len(playlist) + 1
            /\ SubSeq(playlist', 1, Len(playlist)) = playlist
            /\ playlist'[Len(playlist')]["type"] = "file"
            /\ playlist'[Len(playlist')]["name"] = uploaded_files[1].name]_vars

\* C10: adding a URL that is already the source of a URL entry leaves the playlist
\* unchanged, fetches nothing and shows the warning.
C10_DuplicateUrlWarned ==
    [][(/\ pc = "source"
        /\ radio_value = UrlMode
        /\ trigger.kind = "addurl"
        /\ trigger.arg \in url_sources(playlist))
         => /\ playlist' = playlist
            /\ ~fetched'
            /\ "warning: URL already in playlist" \in messages']_vars

\* C10 witness: the URL section has warned about a URL that is in the playlist.
C10_Witness ==
    /\ pc = "options"
    /\ trigger.kind = "addurl"
    /\ trigger.arg \in url_sources(playlist)
    /\ ~fetched
    /\ "warning: URL already in playlist" \in messages

\* C11: in a cycle whose fetch failed an error is shown, and no step of that
\* cycle other than a sleep-timer expiry appends an entry or changes
\* current_track_index; the main section does not abandon such a cycle to
\* select a track.
C11_FetchFailureLeavesState ==
    [][/\ fetch_result' = "RequestException"
            => /\ "error: fetching URL" \in messages'
               /\ playlist' = playlist
               /\ current_track_index' = current_track_index
       /\ (fetch_result = "RequestException" /\ pc = "main")
            => fetch_result' = "RequestException"]_vars

\* C11 witness: a cycle with a failed fetch has ended, a track being selected.
C11_Witness ==
    /\ pc = "idle"
    /\ fetch_result = "RequestException"
    /\ "error: fetching URL" \in messages
    /\ valid_index

\* C12: a run of the music-source section that appends an entry (local file or
\* URL) sets current_track_index to 0 when it was -1 and leaves it unchanged
\* when a track was selected.
C12_AddSelectsFirst ==
    [][(pc = "source" /\ Len(playlist') > Len(playlist))
         => current_track_index' =
               IF current_track_index = -1 THEN 0 ELSE current_track_index]_vars

\* C13: get_metadata never raises: for every file held by the uploader, whatever
\* the tag library does with its bytes, the call returns a record holding the
\* five fields title, artist, album, duration and art.
C13_GetMetadataNeverRaises ==
    \A i \in 1..Len(uploaded_files) :
        LET m == get_metadata(uploaded_files[i].data, uploaded_files[i].name)
        IN /\ ~m.raised
           /\ DOMAIN m.value = {"title", "artist", "album", "duration", "art"}

\* C14 as stated: in every reachable playlist no two local-file entries share a
\* name and no two URL entries share a name.
C14_NameUniquePerKind ==
    \A i, j \in 1..Len(playlist) :
        (i # j /\ playlist[i]["type"] = playlist[j]["type"])
            => playlist[i]["name"] # playlist[j]["name"]

\* C14 amended: in every reachable playlist no two local-file entries share a
\* name and no two URL entries share a source URL (URL entries may share a name).
C14_KeyUniquePerKind ==
    \A i, j \in 1..Len(playlist) :
        (i # j /\ playlist[i]["type"] = playlist[j]["type"])
            => IF playlist[i]["type"] = "file"
               THEN playlist[i]["name"] # playlist[j]["name"]
               ELSE playlist[i]["source"] # playlist[j]["source"]

\* C14 witness: two URL entries with different sources carry the same name, next
\* to a local-file entry.
C14_Witness ==
    /\ \E i, j \in 1..Len(playlist) :
          /\ i # j
          /\ playlist[i]["type"] = "url" /\ playlist[j]["type"] = "url"
          /\ playlist[i]["name"] = playlist[j]["name"]
          /\ playlist[i]["source"] # playlist[j]["source"]
    /\ local_names(playlist) # {}

\* C15: the only step that takes current_track_index from a selected track
\* (>= 0) to -1 is the sleep-timer poll finding the deadline reached; no user
\* action deselects.
C15_OnlyExpiryDeselects ==
    [][(current_track_index >= 0 /\ current_track_index' = -1)
         => /\ pc = "poll"
            /\ sleep_timer_due
            /\ trigger'.kind = "rerun"]_vars

\* C15 witness: the expiry has deselected a track of a playlist of several
\* tracks, in shuffle mode.
C15_Witness ==
    /\ pc = "source"
    /\ trigger.kind = "rerun"
    /\ trigger.arg = 362
    /\ current_track_index = -1
    /\ Len(playlist) >= 2
    /\ shuffle_mode

\* C16: every step leaves the previous playlist as a prefix of the new one:
\* entries are only appended, an entry keeps its index and the length never
\* decreases.
C16_PlaylistOnlyAppends ==
    [][/\ Len(playlist') >= Len(playlist)
       /\ SubSeq(playlist', 1, Len(playlist)) = playlist]_vars

\* C16 witness: a URL add has just appended an entry behind entries of both
\* kinds.
C16_Witness ==
    /\ pc = "options"
    /\ trigger.kind = "addurl"
    /\ Len(playlist) >= 3
    /\ playlist[Len(playlist)]["type"] = "url"
    /\ playlist[Len(playlist)]["source"] = trigger.arg
    /\ local_names(SubSeq(playlist, 1, Len(playlist) - 1)) # {}
    /\ url_names(SubSeq(playlist, 1, Len(playlist) - 1)) # {}

\* C17: for either value of shuffle_mode and every valid current_track_index
\* the Previous handler sets the index to current - 1, or to len(playlist) - 1
\* when the current index is 0.
C17_PreviousNeverShuffles ==
    [][(pc = "main" /\ trigger.kind = "previous" /\ valid_index)
         => current_track_index' =
               IF current_track_index = 0 THEN Len(playlist) - 1
               ELSE current_track_index - 1]_vars

\* C17 witness: Previous has been handled in shuffle mode on a playlist of
\* three tracks, stepping from the last track to the middle one.
C17_Witness ==
    /\ pc = "poll"
    /\ trigger.kind = "previous"
    /\ shuffle_mode
    /\ Len(playlist) >= 3
    /\ audio = Len(playlist) - 1
    /\ current_track_index = Len(playlist) - 2

\* C18: at the end of every render cycle the track handed to the now-playing
\* panel and the audio element is playlist[current_track_index]; the cycle that
\* handles a next, previous or select intent renders the newly selected track.
C18_RenderedIsSelected ==
    [][(pc = "poll" /\ pc' = "idle")
         => audio' = IF valid_index' THEN current_track_index' ELSE NoTrack]_vars

\* C19: in every reachable state sleep_timer_active is true exactly when
\* sleep_timer_end_time is set; the Start handler sets both, the Cancel handler
\* and the expiry clear both, and no other step changes either.
C19_TimerFlagMatchesDeadline ==
    /\ sleep_timer_active <=> sleep_timer_end_time # NoTime
    /\ [][/\ sleep_timer_active' <=> sleep_timer_end_time' # NoTime
          /\ IF pc = "options" /\ trigger.kind = "start"
             THEN sleep_timer_active' /\ sleep_timer_end_time' # NoTime
             ELSE IF (pc = "options" /\ trigger.kind = "cancel")
                     \/ (pc = "poll" /\ sleep_timer_due)
             THEN ~sleep_timer_active' /\ sleep_timer_end_time' = NoTime
             ELSE UNCHANGED <<sleep_timer_active, sleep_timer_end_time>>]_vars

\* C19 witness: the Cancel handler has just cleared a running timer.
C19_Witness ==
    /\ pc = "main"
    /\ trigger.kind = "cancel"
    /\ ~sleep_timer_active
    /\ sleep_timer_end_time = NoTime
    /\ valid_index

====
